---------------------------- MODULE Spec2Model ----------------------------
(***************************************************************************)
(* Model of src/app.py: the sitemap-driven internal-link opportunity       *)
(* finder.  Strings are sequences of one-character strings, so that the    *)
(* string functions of the program (strip, lower, startswith, urlparse,    *)
(* urlunparse, re.search) are computed character by character.             *)
(***************************************************************************)
EXTENDS Integers, Sequences, FiniteSets, TLC

(***************************************************************************)
(* Characters and string helpers (str methods used by src/app.py).         *)
(***************************************************************************)
UpperChars == <<"A", "B", "C", "D", "E", "F", "G", "H", "I", "J", "K", "L", "M", "N", "O", "P", "Q", "R", "S", "T", "U", "V", "W", "X", "Y", "Z">>
LowerChars == <<"a", "b", "c", "d", "e", "f", "g", "h", "i", "j", "k", "l", "m", "n", "o", "p", "q", "r", "s", "t", "u", "v", "w", "x", "y", "z">>
DigitChars == <<"0", "1", "2", "3", "4", "5", "6", "7", "8", "9">>

Range(s) == {s[i] : i \in 1..Len(s)}

\* str.lower() of one character
LowerChar(c) ==
  IF \E i \in 1..Len(UpperChars) : UpperChars[i] = c
  THEN LowerChars[CHOOSE i \in 1..Len(UpperChars) : UpperChars[i] = c]
  ELSE c

\* str.lower()
Lower(s) == [i \in 1..Len(s) |-> LowerChar(s[i])]

IsSpace(c) == c = " "

\* s[a:b] with Python's 0-based, end-exclusive, clamped slice bounds a >= 0, b >= 0
Slice(s, a, b) ==
  LET lo == IF a > Len(s) THEN Len(s) ELSE a
      hi == IF b > Len(s) THEN Len(s) ELSE b
  IN  IF hi <= lo THEN <<>> ELSE SubSeq(s, lo + 1, hi)

\* str.strip(): drop leading and trailing whitespace
Strip(s) ==
  LET keep == {i \in 1..Len(s) : ~IsSpace(s[i])}
  IN  IF keep = {} THEN <<>>
      ELSE SubSeq(s, CHOOSE i \in keep : \A j \in keep : i <= j,
                     CHOOSE i \in keep : \A j \in keep : j <= i)

\* str.startswith(prefix)
StartsWith(s, prefix) ==
  Len(s) >= Len(prefix) /\ SubSeq(s, 1, Len(prefix)) = prefix

\* str.endswith(suffix)
EndsWith(s, suffix) ==
  Len(s) >= Len(suffix) /\ SubSeq(s, Len(s) - Len(suffix) + 1, Len(s)) = suffix

\* str.find(c) for a one-character c, 1-based; 0 when c does not occur
Find(s, c) ==
  IF \E i \in 1..Len(s) : s[i] = c
  THEN CHOOSE i \in 1..Len(s) : s[i] = c /\ \A j \in 1..(i - 1) : s[j] # c
  ELSE 0

\* str.split(c): the pieces between occurrences of the character c
RECURSIVE Split(_, _)
Split(s, c) ==
  LET i == Find(s, c)
  IN  IF i = 0 THEN <<s>>
      ELSE <<SubSeq(s, 1, i - 1)>> \o Split(SubSeq(s, i + 1, Len(s)), c)

\* sep.join(parts)
RECURSIVE Join(_, _)
Join(parts, sep) ==
  IF parts = <<>> THEN <<>>
  ELSE IF Len(parts) = 1 THEN parts[1]
  ELSE parts[1] \o sep \o Join(Tail(parts), sep)

\* whether `needle` occurs in `s` as a contiguous substring
Contains(s, needle) ==
  \E i \in 0..(Len(s) - Len(needle)) : SubSeq(s, i + 1, i + Len(needle)) = needle

(***************************************************************************)
(* urllib.parse as normalize_url and extract_links use it.                 *)
(***************************************************************************)
SchemeChars == Range(UpperChars) \cup Range(LowerChars) \cup Range(DigitChars) \cup {"+", "-", "."}
IsAlpha(c) == c \in Range(UpperChars) \cup Range(LowerChars)

\* the first position of a character of `stops` in s at or after position `from`, else Len(s)+1
FirstOf(s, stops, from) ==
  IF \E i \in from..Len(s) : s[i] \in stops
  THEN CHOOSE i \in from..Len(s) : s[i] \in stops /\ \A j \in from..(i - 1) : s[j] \notin stops
  ELSE Len(s) + 1

\* the position of the colon that ends the scheme of u, or 0 when u has no scheme
SchemeEndAt(u, colon) ==
  IF /\ colon > 1
     /\ IsAlpha(u[1])
     /\ \A i \in 1..(colon - 1) : u[i] \in SchemeChars
  THEN colon ELSE 0

\* urlsplit, step 1: the scheme (lower-cased) and what follows its colon
SplitSchemeAt(u, colon) ==
  IF colon > 0
  THEN [scheme |-> Lower(SubSeq(u, 1, colon - 1)), rest |-> SubSeq(u, colon + 1, Len(u))]
  ELSE [scheme |-> <<>>, rest |-> u]

\* urlsplit, step 2: the netloc after "//", up to the first of / ? #
SplitNetlocAt(p, locEnd) ==
  IF StartsWith(p.rest, <<"/", "/">>)
  THEN [scheme |-> p.scheme, netloc |-> SubSeq(p.rest, 3, locEnd - 1),
        rest |-> SubSeq(p.rest, locEnd, Len(p.rest))]
  ELSE [scheme |-> p.scheme, netloc |-> <<>>, rest |-> p.rest]

\* urlsplit, step 3: the fragment after the first #
SplitFragmentAt(p, hash) ==
  IF hash > 0
  THEN [scheme |-> p.scheme, netloc |-> p.netloc, rest |-> SubSeq(p.rest, 1, hash - 1),
        fragment |-> SubSeq(p.rest, hash + 1, Len(p.rest))]
  ELSE [scheme |-> p.scheme, netloc |-> p.netloc, rest |-> p.rest, fragment |-> <<>>]

\* urlsplit, step 4: the query after the first ?, and the path before it
SplitQueryAt(p, qm) ==
  [scheme |-> p.scheme, netloc |-> p.netloc,
   path |-> IF qm > 0 THEN SubSeq(p.rest, 1, qm - 1) ELSE p.rest,
   query |-> IF qm > 0 THEN SubSeq(p.rest, qm + 1, Len(p.rest)) ELSE <<>>,
   fragment |-> p.fragment]

SplitScheme(u) == SplitSchemeAt(u, SchemeEndAt(u, Find(u, ":")))
SplitNetloc(p) == SplitNetlocAt(p, FirstOf(p.rest, {"/", "?", "#"}, 3))
SplitFragment(p) == SplitFragmentAt(p, Find(p.rest, "#"))
SplitQuery(p) == SplitQueryAt(p, Find(p.rest, "?"))

\* urlparse(u): scheme (lower-cased), netloc, path, query, fragment
urlparse(u) == SplitQuery(SplitFragment(SplitNetloc(SplitScheme(u))))

\* urlunparse, step 1: "//" netloc path, when there is a netloc or a scheme
WithNetloc(scheme, netloc, path) ==
  IF netloc # <<>> \/ (scheme # <<>> /\ ~StartsWith(path, <<"/", "/">>))
  THEN <<"/", "/">> \o netloc \o (IF path # <<>> /\ path[1] # "/" THEN <<"/">> \o path ELSE path)
  ELSE path

\* urlunparse((scheme, netloc, path, "", query, fragment))
urlunparse(scheme, netloc, path, query, fragment) ==
  (IF scheme # <<>> THEN scheme \o <<":">> ELSE <<>>)
  \o WithNetloc(scheme, netloc, path)
  \o (IF query # <<>> THEN <<"?">> \o query ELSE <<>>)
  \o (IF fragment # <<>> THEN <<"#">> \o fragment ELSE <<>>)

\* parse_qsl(query, keep_blank_values=True): the (key, value) pairs, in order
\* one name=value field; a field without "=" has a blank value
QslPairAt(f, eq) ==
  IF eq = 0 THEN <<f, <<>> >> ELSE <<SubSeq(f, 1, eq - 1), SubSeq(f, eq + 1, Len(f))>>

RECURSIVE QslPairs(_)
QslPairs(fields) ==
  IF fields = <<>> THEN <<>>
  ELSE (IF Head(fields) = <<>> THEN <<>>
        ELSE <<QslPairAt(Head(fields), Find(Head(fields), "="))>>)
       \o QslPairs(Tail(fields))

parse_qsl(query) == QslPairs(Split(query, "&"))

\* urlencode(qs, doseq=True): key=value joined by &
urlencode(qs) == Join([i \in 1..Len(qs) |-> qs[i][1] \o <<"=">> \o qs[i][2]], <<"&">>)

\* the tracking parameters normalize_url drops
drop == {<<"u", "t", "m", "_", "s", "o", "u", "r", "c", "e">>, <<"u", "t", "m", "_", "m", "e", "d", "i", "u", "m">>, <<"u", "t", "m", "_", "c", "a", "m", "p", "a", "i", "g", "n">>, <<"u", "t", "m", "_", "t", "e", "r", "m">>,
         <<"u", "t", "m", "_", "c", "o", "n", "t", "e", "n", "t">>, <<"g", "c", "l", "i", "d">>, <<"f", "b", "c", "l", "i", "d">>}

RECURSIVE FilterPairs(_)
FilterPairs(qs) ==
  IF qs = <<>> THEN <<>>
  ELSE (IF Lower(Head(qs)[1]) \in drop THEN <<>> ELSE <<Head(qs)>>)
       \o FilterPairs(Tail(qs))

\* the trailing-slash rule of normalize_url
StripTrailingSlash(path) ==
  IF path # <<"/">> /\ EndsWith(path, <<"/">>) THEN SubSeq(path, 1, Len(path) - 1) ELSE path

\* normalize_url after urlparse
Normalized(p) ==
  urlunparse(Lower(IF p.scheme # <<>> THEN p.scheme ELSE <<"h", "t", "t", "p", "s">>),
             Lower(p.netloc),
             StripTrailingSlash(IF p.path # <<>> THEN p.path ELSE <<"/">>),
             urlencode(FilterPairs(parse_qsl(p.query))),
             <<>>)

normalize_url(u) == Normalized(urlparse(Strip(u)))

\* the directory of a base path: the path without its last segment
DirOf(parts) == Join(SubSeq(parts, 1, Len(parts) - 1), <<"/">>)

\* urljoin after both URLs are parsed (b, p) and the scheme is settled
Joined(base, url, b, p, scheme) ==
  IF scheme # b.scheme THEN url
  ELSE IF p.netloc # <<>>
       THEN urlunparse(scheme, p.netloc, p.path, p.query, p.fragment)
  ELSE IF p.path = <<>>
       THEN urlunparse(scheme, b.netloc, b.path,
                       IF p.query # <<>> THEN p.query ELSE b.query, p.fragment)
  ELSE IF p.path[1] = "/"
       THEN urlunparse(scheme, b.netloc, p.path, p.query, p.fragment)
  ELSE urlunparse(scheme, b.netloc, DirOf(Split(b.path, "/")) \o <<"/">> \o p.path,
                  p.query, p.fragment)

JoinParsed(base, url, b, p) ==
  Joined(base, url, b, p, IF p.scheme # <<>> THEN p.scheme ELSE b.scheme)

\* urljoin(base, url) for http(s) URLs without dot segments
urljoin(base, url) ==
  IF url = <<>> THEN base
  ELSE IF base = <<>> THEN url
  ELSE JoinParsed(base, url, urlparse(base), urlparse(url))

(***************************************************************************)
(* Optional[str]: None, or a string.                                       *)
(***************************************************************************)
None == [some |-> FALSE, text |-> <<>>]
Some(t) == [some |-> TRUE, text |-> t]
\* Python truthiness of an Optional[str]: `if x:`
Truthy(x) == x.some /\ x.text # <<>>

(***************************************************************************)
(* Text extraction + snippet                                               *)
(***************************************************************************)
\* the ellipsis markers find_keyword_snippet adds; "U+2026" is the one character
\* HORIZONTAL ELLIPSIS
LeftMarker == <<"U+2026", " ">>
RightMarker == <<" ", "U+2026">>

\* the least element of a non-empty set of integers, -1 for the empty set
LeastOr(hits) == IF hits = {} THEN -1 ELSE CHOOSE i \in hits : \A j \in hits : i <= j

\* re.compile(re.escape(keyword), re.IGNORECASE).search(text): the 0-based start of
\* the leftmost match, or -1
SearchIgnoreCase(text, keyword) ==
  LeastOr({i \in 0..(Len(text) - Len(keyword)) :
             Lower(SubSeq(text, i + 1, i + Len(keyword))) = Lower(keyword)})

Max(a, b) == IF a >= b THEN a ELSE b
Min(a, b) == IF a <= b THEN a ELSE b

\* text[start:end].strip() with the marker of each truncated side
Cut(text, start, end) ==
  (IF start > 0 THEN LeftMarker ELSE <<>>)
  \o Strip(Slice(text, start, end))
  \o (IF end < Len(text) THEN RightMarker ELSE <<>>)

\* SnippetAt measuring the right window from the start of the match: a faulty variant
SnippetAtShortEnd(text, keyword, window, m) ==
  IF m < 0 THEN None
  ELSE Some(Cut(text, Max(0, m - window), Min(Len(text), m + window)))

\* find_keyword_snippet once the search returned the match start m
SnippetAt(text, keyword, window, m) ==
  IF m < 0 THEN None
  ELSE Some(Cut(text, Max(0, m - window), Min(Len(text), m + Len(keyword) + window)))

find_keyword_snippet(text, keyword, window) ==
  IF keyword = <<>> THEN None
  ELSE SnippetAt(text, keyword, window, SearchIgnoreCase(text, keyword))

\* re.sub(r"\s+", " ", text): runs of whitespace become one space
RECURSIVE CollapseSpaces(_)
CollapseSpaces(s) ==
  IF Len(s) < 2 THEN s
  ELSE IF IsSpace(s[1]) /\ IsSpace(s[2]) THEN CollapseSpaces(Tail(s))
  ELSE <<s[1]>> \o CollapseSpaces(Tail(s))

\* An HTML document is the sequence of its elements in document order.
Elem(tag, text) == [tag |-> tag, has_href |-> FALSE, href |-> <<>>, text |-> text]
Anchor(href, text) == [tag |-> "a", has_href |-> TRUE, href |-> href, text |-> text]

\* the elements extract_visible_text removes
NonContentTags == {"script", "style", "noscript", "svg", "canvas", "iframe"}

\* soup.get_text(" ", strip=True): the stripped, non-empty text pieces, in order
PieceOf(e, t) == IF e.tag \in NonContentTags \/ t = <<>> THEN <<>> ELSE <<t>>

RECURSIVE TextPieces(_)
TextPieces(html) ==
  IF html = <<>> THEN <<>>
  ELSE PieceOf(Head(html), Strip(Head(html).text)) \o TextPieces(Tail(html))

extract_visible_text(html) == Strip(CollapseSpaces(Join(TextPieces(html), <<" ">>)))

\* LinkOf without normalize_url: a faulty variant
LinkOfUnnormalized(a, href, base_url) ==
  IF a.tag = "a" /\ a.has_href /\ href # <<>> THEN {urljoin(base_url, href)} ELSE {}

\* the links one element contributes: an <a href> with a non-empty href
LinkOf(a, href, base_url) ==
  IF a.tag = "a" /\ a.has_href /\ href # <<>>
  THEN {normalize_url(urljoin(base_url, href))}
  ELSE {}

RECURSIVE extract_links(_, _)
extract_links(html, base_url) ==
  IF html = <<>> THEN {}
  ELSE LinkOf(Head(html), Strip(Head(html).href), base_url)
       \cup extract_links(Tail(html), base_url)

(***************************************************************************)
(* Sitemap parsing (index + urlset)                                        *)
(***************************************************************************)
\* An XML document is the sequence of its <sitemap> and <url> entries in
\* document order, each with the text of its <loc>.
Entry(tag, loc) == [tag |-> tag, loc |-> loc]

RECURSIVE LocsOf(_, _)
LocsOf(xml, tag) ==
  IF xml = <<>> THEN <<>>
  ELSE (IF Head(xml).tag = tag THEN <<Head(xml).loc>> ELSE <<>>) \o LocsOf(Tail(xml), tag)

\* uniq(seq): drop empty strings and repeats, keep the first occurrences in order
RECURSIVE uniq_from(_, _)
uniq_from(seq, seen) ==
  IF seq = <<>> THEN <<>>
  ELSE IF Head(seq) # <<>> /\ Head(seq) \notin seen
       THEN <<Head(seq)>> \o uniq_from(Tail(seq), seen \cup {Head(seq)})
       ELSE uniq_from(Tail(seq), seen)

uniq(seq) == uniq_from(seq, {})

\* parse_sitemap_xml(xml): (child_sitemaps, urls)
parse_sitemap_xml(xml) ==
  [child_sitemaps |-> uniq(LocsOf(xml, "sitemap")), urls |-> uniq(LocsOf(xml, "url"))]

\* An HTTP response: its status (0 stands for a timeout or a connection error,
\* which session.get raises as an exception) and its body.
Response(status, body) == [status |-> status, body |-> body]
HTTP_OK == 200

\* fetch_text: the body of a 200 response, None otherwise
fetch_text(resp) == IF resp.status # HTTP_OK THEN None ELSE Some(resp.body)

(***************************************************************************)
(* The web the model runs against.                                         *)
(***************************************************************************)
\* Site h is the site the requests of the model scan: a root sitemap, one child
\* sitemap and three pages, of which PageT is the target page itself, PageA is
\* written with an upper-case host and PageC lives on a subdomain.
RootUrl == <<"h", "t", "t", "p", "s", ":", "/", "/", "h", "/", "s">>
ChildUrl == <<"h", "t", "t", "p", "s", ":", "/", "/", "h", "/", "s", "1">>
SiteSitemaps == {RootUrl, ChildUrl}

PageT == <<"h", "t", "t", "p", "s", ":", "/", "/", "h", "/", "t">>
PageA == <<"h", "t", "t", "p", "s", ":", "/", "/", "H", "/", "a">>
PageC == <<"h", "t", "t", "p", "s", ":", "/", "/", "x", ".", "h", "/", "c">>
PageUrls == {PageT, PageA, PageC}

XmlOf(children, pages) ==
  [i \in 1..Len(children) |-> Entry("sitemap", children[i])]
  \o [i \in 1..Len(pages) |-> Entry("url", pages[i])]

\* the documents a sitemap URL of site h may serve
SiteDocs ==
  { XmlOf(<<ChildUrl, RootUrl>>, <<>>),
    XmlOf(<<ChildUrl>>, <<PageA>>),
    XmlOf(<<>>, <<PageC, PageT>>),
    XmlOf(<<>>, <<PageA, <<>>, PageT, PageA>>) }

\* Site g is an open site: each of its four sitemap URLs may serve any document
\* that lists at most two different child sitemaps and at most two different
\* pages, in any order, so that every graph over the four sitemaps arises; some
\* documents repeat a <loc> or leave one empty.
OpenRoot == <<"h", "t", "t", "p", "s", ":", "/", "/", "g", "/", "r">>
OpenSitemaps == {OpenRoot, <<"h", "t", "t", "p", "s", ":", "/", "/", "g", "/", "r", "1">>, <<"h", "t", "t", "p", "s", ":", "/", "/", "g", "/", "r", "2">>, <<"h", "t", "t", "p", "s", ":", "/", "/", "g", "/", "r", "3">>}
OpenPages == {PageT, PageA}

LocLists(S) == {<<>>} \cup {<<x>> : x \in S} \cup {p \in S \X S : p[1] # p[2]}

OpenDocs ==
  {XmlOf(c, p) : c \in LocLists(OpenSitemaps) \cup {<<OpenRoot, OpenRoot>>},
                 p \in LocLists(OpenPages) \cup {<<PageT, PageT>>, <<PageA, <<>>>>}}

SitemapUrls == SiteSitemaps \cup OpenSitemaps

\* what a fetch of the sitemap at `url` may return
SitemapResponses(url) ==
  {Response(HTTP_OK, d) : d \in IF url \in SiteSitemaps THEN SiteDocs ELSE OpenDocs}
  \cup {Response(404, <<>>), Response(0, <<>>)}

\* the HTML documents a page may serve
DocLinksTarget == <<Anchor(<<" ", "/", "t", "/", "#", "t", "o", "p", " ">>, <<"x">>), Elem("p", <<"a", " ", "b">>)>>
DocSelfLink    == <<Anchor(<<>>, <<"x">>), Elem("p", <<"A", " ", " ", "b">>)>>
DocScriptOnly  == <<Elem("script", <<"a", " ", "b">>), Elem("p", <<"x">>)>>
DocOneKeyword  == <<Anchor(<<"h", "t", "t", "p", "s", ":", "/", "/", "h", "/", "a">>, <<"x">>), Elem("p", <<"A">>)>>
HtmlDocs == {DocLinksTarget, DocSelfLink, DocScriptOnly, DocOneKeyword}

\* what a fetch of a page may return
PageResponses ==
  {Response(HTTP_OK, d) : d \in HtmlDocs \cup {<<>>}}
  \cup {Response(404, DocOneKeyword), Response(0, <<>>)}

(***************************************************************************)
(* State                                                                   *)
(***************************************************************************)
VARIABLES
  req,             \* the parameters of the request (api_scan's arguments)
  pc,              \* where the request is
  result,          \* the payload returned to the caller
  max_sitemaps,    \* collect_urls_from_sitemap: its bounds and its locals
  max_urls,
  queue,
  seen_sitemaps,
  urls,
  sm,              \* the sitemap whose fetch is in flight
  out,             \* the list collect_urls_from_sitemap returned
  keywords,        \* run_scan: its locals
  target_norm,
  root_host,
  scan_urls,       \* `urls` of run_scan after the host filter and the truncation
  sem,             \* free slots of the semaphore
  tasks,           \* one bounded(u) task per page of scan_urls
  completed,       \* tasks finished and not yet taken by the as_completed loop
  results,
  sitemap_fetches, \* instrumentation: fetch_text calls per sitemap URL
  page_fetches,    \* instrumentation: fetch_text calls per page URL
  back_ref,        \* instrumentation: a fetched sitemap listed a visited sitemap
  listed,          \* instrumentation: the sitemaps the fetched sitemaps listed
  fetch_failed,    \* instrumentation: a sitemap fetch returned no text
  finished,        \* instrumentation: the page tasks in the order they completed
  arg,             \* argument and result of a pure function under test
  ret

vars == <<req, pc, result, max_sitemaps, max_urls, queue, seen_sitemaps, urls, sm, out,
          keywords, target_norm, root_host, scan_urls, sem, tasks, completed, results,
          sitemap_fetches, page_fetches, back_ref, listed, fetch_failed, finished,
          arg, ret>>

resolver_vars == <<max_sitemaps, max_urls, queue, seen_sitemaps, urls, sm, out>>
scan_vars == <<keywords, target_norm, root_host, scan_urls, sem, tasks, completed, results>>
probe_vars == <<sitemap_fetches, page_fetches, back_ref, listed, fetch_failed, finished>>
fn_vars == <<arg, ret>>

\* defaults of collect_urls_from_sitemap and find_keyword_snippet
DefaultMaxSitemaps == 25
DefaultMaxUrls == 5000
DefaultWindow == 80

\* bounds of the model
MaxPagesArg == 2
MaxConcurrencyArg == 2
MaxSitemapsArg == 4
MaxUrlsArg == 3
MaxCounted == 2

NoResult == [kind |-> "none"]
ErrorResult(msg) == [kind |-> "error", error |-> msg]

(***************************************************************************)
(* collect_urls_from_sitemap                                               *)
(***************************************************************************)
\* LoopCondition without its two bounds: a faulty variant
LoopConditionQueueOnly == queue # <<>>

\* LoopCondition without the page bound: a faulty variant
LoopConditionNoUrlBound ==
  /\ queue # <<>>
  /\ Cardinality(seen_sitemaps) < max_sitemaps

\* the condition of the while loop
LoopCondition ==
  /\ queue # <<>>
  /\ Cardinality(seen_sitemaps) < max_sitemaps
  /\ Len(urls) < max_urls

\* EnqueueChildren without the budget test: a faulty variant
RECURSIVE EnqueueUnbudgeted(_, _, _, _)
EnqueueUnbudgeted(q, seen, children, limit) ==
  IF children = <<>> THEN q
  ELSE IF Head(children) \notin seen
       THEN EnqueueUnbudgeted(Append(q, Head(children)), seen, Tail(children), limit)
       ELSE EnqueueUnbudgeted(q, seen, Tail(children), limit)

\* EnqueueChildren without the test `c not in seen_sitemaps`: a faulty variant
RECURSIVE EnqueueSeenToo(_, _, _, _)
EnqueueSeenToo(q, seen, children, limit) ==
  IF children = <<>> THEN q
  ELSE IF Cardinality(seen) + Len(q) < limit
       THEN EnqueueSeenToo(Append(q, Head(children)), seen, Tail(children), limit)
       ELSE EnqueueSeenToo(q, seen, Tail(children), limit)

\* for c in child_sitemaps: enqueue c if it is unseen and the budget allows
RECURSIVE EnqueueChildren(_, _, _, _)
EnqueueChildren(q, seen, children, limit) ==
  IF children = <<>> THEN q
  ELSE LET c == Head(children)
       IN  IF c \notin seen /\ Cardinality(seen) + Len(q) < limit
           THEN EnqueueChildren(Append(q, c), seen, Tail(children), limit)
           ELSE EnqueueChildren(q, seen, Tail(children), limit)

\* for u in found_urls: append u, and break once max_urls entries are collected
RECURSIVE AppendUrls(_, _, _)
AppendUrls(collected, found, limit) ==
  IF found = <<>> THEN collected
  ELSE IF Len(collected) >= limit THEN collected
  ELSE AppendUrls(Append(collected, Head(found)), Tail(found), limit)

\* DedupFrom without the test against the strings already kept: a faulty variant
RECURSIVE DedupFromKeepsRepeats(_, _)
DedupFromKeepsRepeats(seq, seen) ==
  IF seq = <<>> THEN <<>>
  ELSE IF Head(seq) # <<>>
       THEN <<Head(seq)>> \o DedupFromKeepsRepeats(Tail(seq), seen)
       ELSE DedupFromKeepsRepeats(Tail(seq), seen)

\* the final deduplication: first occurrences, in order, empty strings dropped
RECURSIVE DedupFrom(_, _)
DedupFrom(seq, seen) ==
  IF seq = <<>> THEN <<>>
  ELSE IF Head(seq) # <<>> /\ Head(seq) \notin seen
       THEN <<Head(seq)>> \o DedupFrom(Tail(seq), seen \cup {Head(seq)})
       ELSE DedupFrom(Tail(seq), seen)

\* the elements of seq from the last to the first
Reversed(seq) == [i \in 1..Len(seq) |-> seq[Len(seq) + 1 - i]]

\* DedupUrls keeping the last occurrence of each string instead of the first: a
\* faulty variant
DedupKeepsLast(seq) == Reversed(DedupFrom(Reversed(seq), {}))

DedupUrls(seq) == DedupFrom(seq, {})

\* MarkSeen without the add: a faulty variant
MarkSeenForgets(seen, s) == seen

\* the seen-set after `seen_sitemaps.add(sm)`
MarkSeen(seen, s) == seen \cup {s}

\* the call counters after one more fetch_text(url); a counter stops at MaxCounted
Counted(fetches, url) ==
  [fetches EXCEPT ![url] = IF fetches[url] < MaxCounted THEN fetches[url] + 1 ELSE MaxCounted]

\* sm = queue.pop(0); a seen sitemap is skipped, an unseen one is marked and fetched
Dequeue ==
  /\ pc = "loop"
  /\ LoopCondition
  /\ queue' = Tail(queue)
  /\ IF Head(queue) \in seen_sitemaps
     THEN UNCHANGED <<pc, seen_sitemaps, sm, sitemap_fetches>>
     ELSE /\ seen_sitemaps' = MarkSeen(seen_sitemaps, Head(queue))
          /\ sm' = Head(queue)
          /\ sitemap_fetches' = Counted(sitemap_fetches, Head(queue))
          /\ pc' = "fetch"
  /\ UNCHANGED <<req, result, max_sitemaps, max_urls, urls, out, page_fetches, back_ref>>
  /\ UNCHANGED <<listed, fetch_failed, finished, scan_vars, fn_vars>>

\* xml = await fetch_text(session, sm), then the rest of the loop body
SitemapFetched ==
  /\ pc = "fetch"
  /\ \E resp \in SitemapResponses(sm) :
       IF ~Truthy(fetch_text(resp))
       THEN /\ fetch_failed' = (fetch_failed \/ ~fetch_text(resp).some)
            /\ UNCHANGED <<queue, urls, back_ref, listed>>
       ELSE /\ fetch_failed' = fetch_failed
            /\ listed' = listed \cup
                 Range(parse_sitemap_xml(fetch_text(resp).text).child_sitemaps)
            /\ back_ref' = (back_ref \/
                             \E c \in Range(parse_sitemap_xml(fetch_text(resp).text).child_sitemaps) :
                               c \in seen_sitemaps)
            /\ queue' = EnqueueChildren(queue, seen_sitemaps,
                          parse_sitemap_xml(fetch_text(resp).text).child_sitemaps,
                          max_sitemaps)
            /\ urls' = AppendUrls(urls, parse_sitemap_xml(fetch_text(resp).text).urls,
                                  max_urls)
  /\ pc' = "loop"
  /\ sm' = <<>>
  /\ UNCHANGED <<req, result, max_sitemaps, max_urls, seen_sitemaps, out>>
  /\ UNCHANGED <<sitemap_fetches, page_fetches, finished, scan_vars, fn_vars>>

\* the loop ends: deduplicate and return
ResolverReturn ==
  /\ pc = "loop"
  /\ ~LoopCondition
  /\ out' = DedupUrls(urls)
  /\ pc' = "returned"
  /\ UNCHANGED <<req, result, max_sitemaps, max_urls, queue, seen_sitemaps, urls, sm>>
  /\ UNCHANGED <<probe_vars, scan_vars, fn_vars>>

(***************************************************************************)
(* Core scanning                                                           *)
(***************************************************************************)
Opportunity(source_url, matched_keyword, snippet) ==
  [source_url |-> source_url, matched_keyword |-> matched_keyword, snippet |-> snippet]

\* match_keywords trying the keywords from the last to the first: a faulty variant
RECURSIVE match_last_keyword(_, _, _, _)
match_last_keyword(text, kws, page_url, checked) ==
  IF kws = <<>> THEN [op |-> <<>>, checked |-> checked]
  ELSE IF Truthy(find_keyword_snippet(text, kws[Len(kws)], DefaultWindow))
       THEN [op |-> <<Opportunity(page_url, kws[Len(kws)],
                                  find_keyword_snippet(text, kws[Len(kws)],
                                                       DefaultWindow).text)>>,
             checked |-> checked + 1]
       ELSE match_last_keyword(text, SubSeq(kws, 1, Len(kws) - 1), page_url, checked + 1)

\* for kw in keywords: the first keyword with a snippet wins.  `checked` counts the
\* calls of find_keyword_snippet.
RECURSIVE match_keywords(_, _, _, _)
Matched(text, kws, page_url, checked, snip) ==
  IF Truthy(snip)
  THEN [op |-> <<Opportunity(page_url, Head(kws), snip.text)>>, checked |-> checked + 1]
  ELSE match_keywords(text, Tail(kws), page_url, checked + 1)

match_keywords(text, kws, page_url, checked) ==
  IF kws = <<>> THEN [op |-> <<>>, checked |-> checked]
  ELSE Matched(text, kws, page_url, checked,
               find_keyword_snippet(text, Head(kws), DefaultWindow))

\* whether the page already links to the target
LinksToTarget(html, page_url, target) == target \in extract_links(html, page_url)

\* scan_one_page after its fetch returned `html`: no Opportunity (the empty
\* sequence) or one
scan_one_page(html, page_url, target, kws) ==
  IF ~Truthy(html) THEN [op |-> <<>>, checked |-> 0]
  ELSE IF LinksToTarget(html.text, page_url, target) THEN [op |-> <<>>, checked |-> 0]
  ELSE match_keywords(extract_visible_text(html.text), kws, page_url, 0)

\* keywords = [k.strip() for k in keywords_csv.split(",") if k.strip()]
RECURSIVE StripAll(_)
StripAll(parts) ==
  IF parts = <<>> THEN <<>>
  ELSE (IF Strip(Head(parts)) # <<>> THEN <<Strip(Head(parts))>> ELSE <<>>)
       \o StripAll(Tail(parts))

split_keywords(keywords_csv) == StripAll(Split(keywords_csv, ","))

\* urlparse(u).netloc.lower()
HostOf(u) == Lower(urlparse(u).netloc)

\* [u for u in urls if urlparse(u).netloc.lower() == root_host]
RECURSIVE HostFilter(_, _)
HostFilter(list, host) ==
  IF list = <<>> THEN <<>>
  ELSE (IF HostOf(Head(list)) = host THEN <<Head(list)>> ELSE <<>>)
       \o HostFilter(Tail(list), host)

\* PageList with the truncation before the host filter: a faulty variant
PageListCutFirst(resolved, same_host_only, host, max_pages) ==
  IF same_host_only THEN HostFilter(Slice(resolved, 0, max_pages), host)
  ELSE Slice(resolved, 0, max_pages)

\* the page list run_scan scans: host filter, then urls[:max_pages]
PageList(resolved, same_host_only, host, max_pages) ==
  Slice(IF same_host_only THEN HostFilter(resolved, host) ELSE resolved, 0, max_pages)

\* the check api_scan applies to sitemap_url and target_url
HasHttpScheme(u) ==
  StartsWith(Lower(u), <<"h", "t", "t", "p", ":", "/", "/">>) \/ StartsWith(Lower(u), <<"h", "t", "t", "p", "s", ":", "/", "/">>)

\* the requests the model issues
SitemapUrlArgs == {RootUrl, <<"f", "t", "p", ":", "/", "/", "h", "/", "s">>}
TargetUrlArgs == {<<"H", "T", "T", "P", "S", ":", "/", "/", "h", "/", "t", "/", "?", "u", "t", "m", "_", "s", "o", "u", "r", "c", "e", "=", "x">>, <<"h", "/", "t">>}
KeywordsArgs == {<<" ", ",", " ">>, <<" ", "b", ",", " ", "A">>}
Requests ==
  [sitemap_url : SitemapUrlArgs, target_url : TargetUrlArgs, keywords : KeywordsArgs,
   max_pages : 1..MaxPagesArg, concurrency : 1..MaxConcurrencyArg,
   same_host_only : BOOLEAN]

\* api_scan: sitemap_url does not start with http:// or https://
ApiRejectSitemap ==
  /\ pc = "start"
  /\ ~HasHttpScheme(req.sitemap_url)
  /\ result' = ErrorResult("sitemap_url must start with http:// or https://")
  /\ pc' = "done"
  /\ UNCHANGED <<req, resolver_vars, scan_vars, probe_vars, fn_vars>>

\* api_scan: target_url does not start with http:// or https://
ApiRejectTarget ==
  /\ pc = "start"
  /\ HasHttpScheme(req.sitemap_url)
  /\ ~HasHttpScheme(req.target_url)
  /\ result' = ErrorResult("target_url must start with http:// or https://")
  /\ pc' = "done"
  /\ UNCHANGED <<req, resolver_vars, scan_vars, probe_vars, fn_vars>>

\* ApiAccepts without the check of target_url: a faulty variant
ApiAcceptsAnyTarget == HasHttpScheme(req.sitemap_url)

\* whether api_scan hands the request to run_scan
ApiAccepts == HasHttpScheme(req.sitemap_url) /\ HasHttpScheme(req.target_url)

\* run_scan: no keyword is left after splitting and trimming
RunScanNoKeywords ==
  /\ pc = "start"
  /\ ApiAccepts
  /\ split_keywords(req.keywords) = <<>>
  /\ result' = ErrorResult("Provide at least one keyword.")
  /\ pc' = "done"
  /\ UNCHANGED <<req, resolver_vars, scan_vars, probe_vars, fn_vars>>

\* run_scan up to the first fetch of collect_urls_from_sitemap
RunScanStart ==
  /\ pc = "start"
  /\ ApiAccepts
  /\ split_keywords(req.keywords) # <<>>
  /\ keywords' = split_keywords(req.keywords)
  /\ target_norm' = normalize_url(req.target_url)
  /\ root_host' = HostOf(req.sitemap_url)
  /\ queue' = <<req.sitemap_url>>
  /\ seen_sitemaps' = {}
  /\ urls' = <<>>
  /\ pc' = "loop"
  /\ UNCHANGED <<req, result, max_sitemaps, max_urls, sm, out>>
  /\ UNCHANGED <<scan_urls, sem, tasks, completed, results>>
  /\ UNCHANGED <<probe_vars, fn_vars>>

NewTask == [state |-> "waiting", html |-> None, op |-> <<>>, checked |-> 0]

\* StartScan not awaiting the resolver: the tasks are created from the pages
\* collected so far while a sitemap fetch is still in flight: a faulty variant
StartScanEager ==
  /\ pc \in {"returned", "fetch"}
  /\ scan_urls' = PageList(IF pc = "returned" THEN out ELSE DedupUrls(urls),
                           req.same_host_only, root_host, req.max_pages)
  /\ sem' = req.concurrency
  /\ tasks' = [i \in 1..Len(scan_urls') |-> NewTask]
  /\ completed' = <<>>
  /\ results' = <<>>
  /\ queue' = <<>>
  /\ seen_sitemaps' = {}
  /\ urls' = <<>>
  /\ pc' = "scan"
  /\ UNCHANGED <<req, result, max_sitemaps, max_urls, sm, out>>
  /\ UNCHANGED <<keywords, target_norm, root_host, probe_vars, fn_vars>>

\* run_scan from the return of collect_urls_from_sitemap to the as_completed loop
StartScan ==
  /\ pc = "returned"
  /\ scan_urls' = PageList(out, req.same_host_only, root_host, req.max_pages)
  /\ sem' = req.concurrency
  /\ tasks' = [i \in 1..Len(scan_urls') |-> NewTask]
  /\ completed' = <<>>
  /\ results' = <<>>
  /\ queue' = <<>>
  /\ seen_sitemaps' = {}
  /\ urls' = <<>>
  /\ pc' = "scan"
  /\ UNCHANGED <<req, result, max_sitemaps, max_urls, sm, out>>
  /\ UNCHANGED <<keywords, target_norm, root_host, probe_vars, fn_vars>>

\* CanAcquire without the gate: a faulty variant
CanAcquireAlways(free) == TRUE

\* whether a task may enter `async with sem`
CanAcquire(free) == free > 0

\* bounded(u): the task takes a slot and scan_one_page issues its fetch
Acquire(i) ==
  /\ pc = "scan"
  /\ tasks[i].state = "waiting"
  /\ CanAcquire(sem)
  /\ sem' = sem - 1
  /\ tasks' = [tasks EXCEPT ![i].state = "fetching"]
  /\ page_fetches' = Counted(page_fetches, scan_urls[i])
  /\ UNCHANGED <<req, pc, result, resolver_vars, sitemap_fetches, back_ref, fn_vars>>
  /\ UNCHANGED <<listed, fetch_failed, finished>>
  /\ UNCHANGED <<keywords, target_norm, root_host, scan_urls, completed, results>>

\* Finished putting a task whose fetch failed back in line for another try: a faulty variant
FinishedOrRetry(html, r) ==
  IF ~html.some THEN NewTask
  ELSE [state |-> "done", html |-> html, op |-> r.op, checked |-> r.checked]

\* a finished task: what its fetch returned and what scan_one_page made of it
Finished(html, r) == [state |-> "done", html |-> html, op |-> r.op, checked |-> r.checked]

\* PageFetched giving the slot back only when the fetch returned text: a faulty
\* variant
PageFetchedLeaks(i) ==
  /\ pc = "scan"
  /\ tasks[i].state = "fetching"
  /\ \E resp \in PageResponses :
       /\ tasks' = [tasks EXCEPT ![i] =
                      Finished(fetch_text(resp),
                               scan_one_page(fetch_text(resp), scan_urls[i],
                                             target_norm, keywords))]
       /\ sem' = IF fetch_text(resp).some THEN sem + 1 ELSE sem
  /\ completed' = Append(completed, i)
  /\ finished' = Append(finished, i)
  /\ UNCHANGED <<req, pc, result, resolver_vars, fn_vars>>
  /\ UNCHANGED <<sitemap_fetches, page_fetches, back_ref, listed, fetch_failed>>
  /\ UNCHANGED <<keywords, target_norm, root_host, scan_urls, results>>

\* the fetch of task i returns; scan_one_page runs to its end, the slot is
\* released and the task completes
PageFetched(i) ==
  /\ pc = "scan"
  /\ tasks[i].state = "fetching"
  /\ \E resp \in PageResponses :
       tasks' = [tasks EXCEPT ![i] =
                   Finished(fetch_text(resp),
                            scan_one_page(fetch_text(resp), scan_urls[i],
                                          target_norm, keywords))]
  /\ sem' = sem + 1
  /\ completed' = Append(completed, i)
  /\ finished' = Append(finished, i)
  /\ UNCHANGED <<req, pc, result, resolver_vars, fn_vars>>
  /\ UNCHANGED <<sitemap_fetches, page_fetches, back_ref, listed, fetch_failed>>
  /\ UNCHANGED <<keywords, target_norm, root_host, scan_urls, results>>

\* the results list after `if op: results.append(op)`
Aggregate(list, op) == IF op # <<>> THEN Append(list, op[1]) ELSE list

\* Collect taking the tasks in the order of the page list, as asyncio.gather would
\* return them: a faulty variant
CollectInListOrder ==
  /\ pc = "scan"
  /\ \E i \in DOMAIN tasks :
       /\ tasks[i].state = "done"
       /\ \A j \in 1..(i - 1) : tasks[j].state = "collected"
       /\ results' = Aggregate(results, tasks[i].op)
       /\ tasks' = [tasks EXCEPT ![i].state = "collected"]
       /\ completed' = SelectSeq(completed, LAMBDA x : x # i)
  /\ UNCHANGED <<req, pc, result, resolver_vars, probe_vars, fn_vars>>
  /\ UNCHANGED <<keywords, target_norm, root_host, scan_urls, sem>>

\* one turn of `for coro in asyncio.as_completed(tasks)`
Collect ==
  /\ pc = "scan"
  /\ completed # <<>>
  /\ results' = Aggregate(results, tasks[Head(completed)].op)
  /\ tasks' = [tasks EXCEPT ![Head(completed)].state = "collected"]
  /\ completed' = Tail(completed)
  /\ UNCHANGED <<req, pc, result, resolver_vars, probe_vars, fn_vars>>
  /\ UNCHANGED <<keywords, target_norm, root_host, scan_urls, sem>>

\* ScannedPages counting only the pages whose fetch succeeded: a faulty variant
ScannedFetched(list) == Cardinality({i \in DOMAIN tasks : Truthy(tasks[i].html)})

\* the scanned_pages field of the payload
ScannedPages(list) == Len(list)

\* every task was taken: run_scan returns its payload
ReturnResult ==
  /\ pc = "scan"
  /\ \A i \in DOMAIN tasks : tasks[i].state = "collected"
  /\ result' = [kind |-> "ok", sitemap_url |-> req.sitemap_url,
                target_url |-> req.target_url, keywords |-> keywords,
                scanned_pages |-> ScannedPages(scan_urls), opportunities |-> results]
  /\ pc' = "done"
  /\ UNCHANGED <<req, resolver_vars, scan_vars, probe_vars, fn_vars>>

(***************************************************************************)
(* Specifications                                                          *)
(***************************************************************************)
NoFetches ==
  /\ sitemap_fetches = [u \in SitemapUrls |-> 0]
  /\ page_fetches = [u \in PageUrls |-> 0]
  /\ back_ref = FALSE
  /\ listed = {}
  /\ fetch_failed = FALSE
  /\ finished = <<>>

IdleScan ==
  /\ keywords = <<>> /\ target_norm = <<>> /\ root_host = <<>>
  /\ scan_urls = <<>> /\ sem = 0 /\ tasks = <<>> /\ completed = <<>> /\ results = <<>>

IdleFn == arg = <<>> /\ ret = <<>>

\* a request arrives at api_scan
Init ==
  /\ req \in Requests
  /\ pc = "start"
  /\ result = NoResult
  /\ max_sitemaps = DefaultMaxSitemaps
  /\ max_urls = DefaultMaxUrls
  /\ queue = <<>> /\ seen_sitemaps = {} /\ urls = <<>> /\ sm = <<>> /\ out = <<>>
  /\ IdleScan /\ NoFetches /\ IdleFn

Next ==
  \/ ApiRejectSitemap
  \/ ApiRejectTarget
  \/ RunScanNoKeywords
  \/ RunScanStart
  \/ Dequeue
  \/ SitemapFetched
  \/ ResolverReturn
  \/ StartScan
  \/ \E i \in DOMAIN tasks : Acquire(i)
  \/ \E i \in DOMAIN tasks : PageFetched(i)
  \/ Collect
  \/ ReturnResult

Spec == Init /\ [][Next]_vars

\* the steps of the page-scan phase
ScanNext ==
  \/ \E i \in DOMAIN tasks : Acquire(i)
  \/ \E i \in DOMAIN tasks : PageFetched(i)
  \/ Collect
  \/ ReturnResult

\* every page fetch returns and the event loop keeps running the tasks that can run
FairSpec == Spec /\ WF_vars(ScanNext)

\* collect_urls_from_sitemap called on the root sitemap with bounds of the caller's
\* choice
NoRequest == [sitemap_url |-> OpenRoot]

ResolveInit ==
  /\ req = NoRequest
  /\ pc = "loop"
  /\ result = NoResult
  /\ max_sitemaps \in 0..MaxSitemapsArg
  /\ max_urls \in 0..MaxUrlsArg
  /\ queue = <<OpenRoot>> /\ seen_sitemaps = {} /\ urls = <<>> /\ sm = <<>> /\ out = <<>>
  /\ IdleScan /\ NoFetches /\ IdleFn

ResolveNext == Dequeue \/ SitemapFetched \/ ResolverReturn

ResolveSpec == ResolveInit /\ [][ResolveNext]_vars

\* every fetch returns and the event loop keeps running the coroutine
FairResolveSpec == ResolveSpec /\ WF_vars(ResolveNext)

(***************************************************************************)
(* normalize_url applied once and again                                    *)
(***************************************************************************)
MaxTrailingSlashes == 2

\* "/" repeated n times
RECURSIVE Slashes(_)
Slashes(n) == IF n = 0 THEN <<>> ELSE <<"/">> \o Slashes(n - 1)

\* the URLs normalize_url is applied to: with and without scheme, mixed case,
\* paths ending in 0..MaxTrailingSlashes slashes, tracking parameters, fragments
\* and surrounding whitespace
NormPrefixes == {<<>>, <<"h", "t", "t", "p", "s", ":", "/", "/", "h">>, <<"H", "T", "T", "P", ":", "/", "/", "E", "x", ".", "i", "o">>}
NormPaths == {<<>>} \cup {<<"/", "a">> \o Slashes(n) : n \in 0..MaxTrailingSlashes}
                    \cup {<<"/", "A", "/", "b">> \o Slashes(n) : n \in 0..MaxTrailingSlashes}
NormQueries == {<<>>, <<"?", "u", "t", "m", "_", "s", "o", "u", "r", "c", "e", "=", "x">>, <<"?", "q", "=", "1", "&", "U", "T", "M", "_", "M", "e", "d", "i", "u", "m", "=", "y", "&", "q", "=", "2">>, <<"?", "g", "c", "l", "i", "d", "=", "1", "&", "&", "b">>}
NormFragments == {<<>>, <<"#", "f">>}
NormPads == {<<>>, <<" ">>}
NormInputs ==
  {pad \o pre \o path \o q \o f \o pad :
     pad \in NormPads, pre \in NormPrefixes, path \in NormPaths,
     q \in NormQueries, f \in NormFragments}

NormInit ==
  /\ req = [fn |-> "normalize_url"]
  /\ pc = "fn"
  /\ result = NoResult
  /\ max_sitemaps = DefaultMaxSitemaps
  /\ max_urls = DefaultMaxUrls
  /\ queue = <<>> /\ seen_sitemaps = {} /\ urls = <<>> /\ sm = <<>> /\ out = <<>>
  /\ IdleScan /\ NoFetches
  /\ arg \in NormInputs
  /\ ret = <<>>

\* y = normalize_url(x)
NormalizeOnce ==
  /\ pc = "fn"
  /\ ret = <<>>
  /\ ret' = <<normalize_url(arg)>>
  /\ UNCHANGED <<req, pc, result, resolver_vars, scan_vars, probe_vars, arg>>

\* z = normalize_url(y)
NormalizeAgain ==
  /\ pc = "fn"
  /\ Len(ret) = 1
  /\ ret' = Append(ret, normalize_url(ret[1]))
  /\ UNCHANGED <<req, pc, result, resolver_vars, scan_vars, probe_vars, arg>>

NormNext == NormalizeOnce \/ NormalizeAgain

NormSpec == NormInit /\ [][NormNext]_vars

(***************************************************************************)
(* find_keyword_snippet on visible texts                                   *)
(***************************************************************************)
MaxTextLen == 6
MaxKeywordLen == 2
MaxWindow == 2

TextChars == {"a", "A", " "}

\* the strings over TextChars of length at most n
RECURSIVE StringsUpTo(_)
StringsUpTo(n) ==
  IF n = 0 THEN {<<>>}
  ELSE StringsUpTo(n - 1) \cup
       {Append(t, c) : t \in {x \in StringsUpTo(n - 1) : Len(x) = n - 1}, c \in TextChars}

\* the texts extract_visible_text can return: whitespace collapsed and trimmed
VisibleTexts == {t \in StringsUpTo(MaxTextLen) : Strip(CollapseSpaces(t)) = t}

SnippetKeywords == StringsUpTo(MaxKeywordLen) \ {<<>>}

SnippetInit ==
  /\ req = [fn |-> "find_keyword_snippet"]
  /\ pc = "fn"
  /\ result = NoResult
  /\ max_sitemaps = DefaultMaxSitemaps
  /\ max_urls = DefaultMaxUrls
  /\ queue = <<>> /\ seen_sitemaps = {} /\ urls = <<>> /\ sm = <<>> /\ out = <<>>
  /\ IdleScan /\ NoFetches
  /\ arg \in [text : VisibleTexts, keyword : SnippetKeywords, window : 1..MaxWindow]
  /\ ret = <<>>

\* snip = find_keyword_snippet(text, keyword, window)
Snip ==
  /\ pc = "fn"
  /\ ret = <<>>
  /\ ret' = <<find_keyword_snippet(arg.text, arg.keyword, arg.window)>>
  /\ UNCHANGED <<req, pc, result, resolver_vars, scan_vars, probe_vars, arg>>

SnippetSpec == SnippetInit /\ [][Snip]_vars

(***************************************************************************)
(* Properties                                                              *)
(***************************************************************************)
\* the number of fetch_text calls a counter function records
RECURSIVE TotalCalls(_, _)
TotalCalls(fetches, S) ==
  IF S = {} THEN 0
  ELSE LET u == CHOOSE x \in S : TRUE
       IN  fetches[u] + TotalCalls(fetches, S \ {u})

\* keyword kw occurs in text, case-insensitively
Occurs(kw, text) == kw # <<>> /\ Contains(Lower(text), Lower(kw))

Finite(i) == tasks[i].state \in {"done", "collected"}

\* the URLs that are source_url of an entry of a list of opportunities
Sources(list) == {list[k].source_url : k \in DOMAIN list}

\* C1: for every sitemap graph, every pattern of fetch failures and every
\* max_sitemaps >= 0 and max_urls >= 0, collect_urls_from_sitemap never marks more
\* than max_sitemaps sitemaps as visited, never fetches more than max_sitemaps
\* sitemaps, and returns a list of at most max_urls entries.
C1_ResolutionBounded ==
  /\ Cardinality(seen_sitemaps) <= max_sitemaps
  /\ TotalCalls(sitemap_fetches, SitemapUrls) <= max_sitemaps
  /\ pc = "returned" => Len(out) <= max_urls

\* both bounds are met with equality on a graph with a back reference
C1_Witness ==
  /\ pc = "returned"
  /\ max_sitemaps >= 2 /\ Cardinality(seen_sitemaps) = max_sitemaps
  /\ max_urls >= 2 /\ Len(out) = max_urls
  /\ back_ref

\* C2: provided every fetch returns, collect_urls_from_sitemap reaches its return
\* on every sitemap graph, cyclic ones included.
C2_Terminates == <>(pc = "returned")

\* the resolver returned although a fetched sitemap referred back to a visited one
C2_Witness ==
  /\ pc = "returned"
  /\ back_ref
  /\ Cardinality(seen_sitemaps) >= 2
  /\ queue = <<>>

\* the tasks that entered scan_one_page and did not return yet
InFlight == {i \in DOMAIN tasks : tasks[i].state = "fetching"}

\* C3: with concurrency = N >= 1, at most N page fetch+analyze invocations are in
\* flight in every reachable state of the page-scan phase.
C3_ConcurrencyBound == Cardinality(InFlight) <= req.concurrency

\* the gate is full and a task waits at it
C3_Witness ==
  /\ pc = "scan"
  /\ Cardinality(InFlight) = req.concurrency
  /\ \E i \in DOMAIN tasks : tasks[i].state = "waiting"

\* the fetched HTML of task i has an anchor whose href (trimmed), resolved against
\* the page URL and normalized, is the normalized target
C4_HasAnchorToTarget(i) ==
  /\ Finite(i)
  /\ Truthy(tasks[i].html)
  /\ \E k \in DOMAIN tasks[i].html.text :
       /\ tasks[i].html.text[k].tag = "a"
       /\ tasks[i].html.text[k].has_href
       /\ normalize_url(urljoin(scan_urls[i], Strip(tasks[i].html.text[k].href)))
            = target_norm

\* the same, for an anchor whose trimmed href is not empty
C4_HasNonEmptyAnchorToTarget(i) ==
  /\ Finite(i)
  /\ Truthy(tasks[i].html)
  /\ \E k \in DOMAIN tasks[i].html.text :
       /\ tasks[i].html.text[k].tag = "a"
       /\ tasks[i].html.text[k].has_href
       /\ Strip(tasks[i].html.text[k].href) # <<>>
       /\ normalize_url(urljoin(scan_urls[i], Strip(tasks[i].html.text[k].href)))
            = target_norm

C4_NotReported(i) ==
  /\ tasks[i].op = <<>>
  /\ scan_urls[i] \notin Sources(results)
  /\ result.kind = "ok" => scan_urls[i] \notin Sources(result.opportunities)

\* C4 as stated: a page whose fetched HTML contains an anchor whose href, resolved
\* against the page URL and normalized, equals the normalized target URL never
\* appears as source_url of an opportunity.
C4_LinkingPageNeverReported ==
  \A i \in DOMAIN tasks : C4_HasAnchorToTarget(i) => C4_NotReported(i)

\* C4 as amended: a page whose fetched HTML contains an anchor whose href is not
\* empty after trimming and, resolved against the page URL and normalized, equals
\* the normalized target URL never appears as source_url of an opportunity.
C4_NonEmptyLinkNeverReported ==
  \A i \in DOMAIN tasks : C4_HasNonEmptyAnchorToTarget(i) => C4_NotReported(i)

\* a page that links to the target and mentions a keyword was left out of a result
\* that reports another page
C4_Witness ==
  /\ pc = "done"
  /\ result.kind = "ok"
  /\ result.opportunities # <<>>
  /\ \E i \in DOMAIN tasks :
       /\ C4_HasNonEmptyAnchorToTarget(i)
       /\ \E k \in DOMAIN keywords :
            Occurs(keywords[k], extract_visible_text(tasks[i].html.text))

\* the number of resolved pages that pass the host filter of the request
C5_Eligible ==
  Cardinality({k \in DOMAIN out :
                 ~req.same_host_only \/ HostOf(out[k]) = HostOf(req.sitemap_url)})

\* C5: scanned_pages of a successful scan is the length of the resolved list
\* after the same-host filter and the truncation to max_pages, whatever page
\* fetches fail; in particular it is at most max_pages.
C5_ScannedPages ==
  (pc = "done" /\ result.kind = "ok") =>
    /\ result.scanned_pages = Min(C5_Eligible, req.max_pages)
    /\ result.scanned_pages <= req.max_pages

\* a scan whose list was truncated and one of whose page fetches failed
C5_Witness ==
  /\ pc = "done"
  /\ result.kind = "ok"
  /\ result.scanned_pages = req.max_pages
  /\ req.max_pages < C5_Eligible
  /\ \E i \in DOMAIN tasks : ~tasks[i].html.some

\* the indexes of the keywords that occur in the visible text of task i
C6_Matching(i) ==
  {k \in DOMAIN keywords :
     Occurs(keywords[k], extract_visible_text(tasks[i].html.text))}

C6_First(i) == CHOOSE k \in C6_Matching(i) : \A j \in C6_Matching(i) : k <= j

C6_Scanned(i) ==
  /\ Finite(i)
  /\ Truthy(tasks[i].html)
  /\ ~LinksToTarget(tasks[i].html.text, scan_urls[i], target_norm)

\* C6: for a fetched page that does not link to the target and matches keywords,
\* matched_keyword is the matching keyword of smallest index in the keyword list,
\* and no keyword after it is evaluated.
C6_FirstListedKeywordWins ==
  \A i \in DOMAIN tasks :
    (C6_Scanned(i) /\ C6_Matching(i) # {}) =>
      /\ Len(tasks[i].op) = 1
      /\ tasks[i].op[1].source_url = scan_urls[i]
      /\ tasks[i].op[1].matched_keyword = keywords[C6_First(i)]
      /\ tasks[i].checked = C6_First(i)

\* a reported page matches two keywords and the one listed first occurs later in
\* its text
C6_Witness ==
  \E i \in DOMAIN tasks :
    /\ C6_Scanned(i)
    /\ tasks[i].state = "collected"
    /\ Cardinality(C6_Matching(i)) >= 2
    /\ \E k \in C6_Matching(i) :
         SearchIgnoreCase(extract_visible_text(tasks[i].html.text), keywords[k])
           < SearchIgnoreCase(extract_visible_text(tasks[i].html.text),
                              keywords[C6_First(i)])
    /\ scan_urls[i] \in Sources(results)

\* the fetch of task i failed
C7_Failed(i) == Finite(i) /\ ~tasks[i].html.some

\* task i fetched a page that does not link to the target and matches a keyword
C7_Eligible(i) == C6_Scanned(i) /\ C6_Matching(i) # {}

\* C7: a page whose fetch fails yields no Opportunity and no error, is never
\* fetched a second time, and every other page that is fetchable, does not link to
\* the target and matches a keyword is in opportunities.
C7_FailureIsLocal ==
  /\ \A u \in PageUrls : page_fetches[u] <= 1
  /\ \A i \in DOMAIN tasks : C7_Failed(i) => tasks[i].op = <<>>
  /\ pc = "done" /\ DOMAIN tasks # {} =>
       /\ result.kind = "ok"
       /\ \A i \in DOMAIN tasks :
            /\ C7_Failed(i) => scan_urls[i] \notin Sources(result.opportunities)
            /\ C7_Eligible(i) => scan_urls[i] \in Sources(result.opportunities)

\* one page fetch failed and another page of the same scan is reported
C7_Witness ==
  /\ pc = "done"
  /\ result.kind = "ok"
  /\ \E i, j \in DOMAIN tasks :
       /\ C7_Failed(i)
       /\ C7_Eligible(j)
       /\ req.concurrency = 1
       /\ scan_urls[j] \in Sources(result.opportunities)

\* u begins with http:// or https:// (the scheme compared case-insensitively, as
\* api_scan compares it)
C8_BeginsWithHttp(u) ==
  \E prefix \in {<<"h", "t", "t", "p", ":", "/", "/">>, <<"h", "t", "t", "p", "s", ":", "/", "/">>} :
    /\ Len(u) >= Len(prefix)
    /\ \A k \in DOMAIN prefix : LowerChar(u[k]) = prefix[k]

\* no keyword is left after splitting on commas and trimming
C8_NoKeyword(csv) ==
  \A k \in DOMAIN Split(csv, ",") : \A n \in DOMAIN Split(csv, ",")[k] :
    IsSpace(Split(csv, ",")[k][n])

C8_Invalid ==
  \/ C8_NoKeyword(req.keywords)
  \/ ~C8_BeginsWithHttp(req.sitemap_url)
  \/ ~C8_BeginsWithHttp(req.target_url)

\* C8: a request with an empty keyword list or with a sitemap_url or target_url
\* that does not begin with http:// or https:// returns an error payload, and no
\* sitemap fetch and no page fetch is ever issued for it.
C8_NoFetchOnValidationError ==
  /\ C8_Invalid =>
       /\ NoFetches
       /\ pc = "start" \/ (pc = "done" /\ result.kind = "error")
  /\ result.kind = "error" => NoFetches

\* run_scan rejected a request with valid URLs and no keyword
C8_Witness ==
  /\ pc = "done"
  /\ result.kind = "error"
  /\ C8_NoKeyword(req.keywords)
  /\ C8_BeginsWithHttp(req.sitemap_url)
  /\ C8_BeginsWithHttp(req.target_url)

\* C9: normalize_url is idempotent: normalize_url(normalize_url(x)) =
\* normalize_url(x) for every x, paths ending in several slashes included.
C9_Idempotent == Len(ret) = 2 => ret[2] = ret[1]

\* the 0-based starts of the matches of the keyword in the text
C10_Starts ==
  {i \in 0..(Len(arg.text) - Len(arg.keyword)) :
     \A k \in DOMAIN arg.keyword : LowerChar(arg.text[i + k]) = LowerChar(arg.keyword[k])}

\* the matched substring as it is written in the text
C10_Matched ==
  LET m == CHOOSE i \in C10_Starts : \A j \in C10_Starts : i <= j
  IN  SubSeq(arg.text, m + 1, m + Len(arg.keyword))

C10_Limit == 2 * arg.window + Len(arg.keyword) + Len(LeftMarker) + Len(RightMarker)

\* C10: for a visible text and a non-empty keyword that occurs in it, the snippet
\* contains the matched substring with its case preserved and is at most
\* 2*window + len(keyword) + 2*len(marker) long.
C10_SnippetBounds ==
  (ret # <<>> /\ C10_Starts # {}) =>
    /\ ret[1].some
    /\ Contains(ret[1].text, C10_Matched)
    /\ Len(ret[1].text) <= C10_Limit

\* a snippet truncated on both sides, as long as the limit allows, around a match
\* whose case differs from the keyword's
C10_Witness ==
  /\ ret # <<>>
  /\ C10_Starts # {}
  /\ ret[1].some
  /\ Len(ret[1].text) = C10_Limit
  /\ C10_Matched # arg.keyword
  /\ StartsWith(ret[1].text, LeftMarker)
  /\ EndsWith(ret[1].text, RightMarker)

\* the network location of an absolute URL: what stands between "//" and the next
\* "/", in lower case
Authority(u) == IF Len(Split(u, "/")) >= 3 THEN Lower(Split(u, "/")[3]) ELSE <<>>

\* the positions of the resolved list that pass the host filter of the request
OnHost ==
  {k \in DOMAIN out :
     ~req.same_host_only \/ Authority(out[k]) = Authority(req.sitemap_url)}

\* the resolved pages that pass the host filter, in discovery order, cut to max_pages
ExpectedPages ==
  [n \in 1..Min(Cardinality(OnHost), req.max_pages) |->
     out[CHOOSE k \in OnHost : Cardinality({j \in OnHost : j <= k}) = n]]

\* C11: in every scan result no two entries of opportunities share a source_url,
\* and every source_url is a page of the list left by the host filter and the
\* truncation.
C11_OnePerPage ==
  (pc = "done" /\ result.kind = "ok") =>
    /\ \A k, l \in DOMAIN result.opportunities :
         result.opportunities[k].source_url = result.opportunities[l].source_url => k = l
    /\ Sources(result.opportunities) \subseteq Range(ExpectedPages)

\* a result that reports two pages of a list the truncation cut
C11_Witness ==
  /\ pc = "done"
  /\ result.kind = "ok"
  /\ Len(result.opportunities) = 2
  /\ Len(out) > Len(ExpectedPages)

\* how often u stands in the queue q
Occurrences(q, u) == Cardinality({k \in DOMAIN q : q[k] = u})

\* a step of the loop that takes the head of the queue
C12_Dequeues == pc = "loop" /\ pc' # "returned" /\ queue # <<>>

\* a dequeued entry is marked and fetched if it was not visited, and skipped
\* without a fetch if it was
C12_MarkOrSkip ==
  C12_Dequeues =>
    IF Head(queue) \in seen_sitemaps
    THEN sitemap_fetches' = sitemap_fetches /\ seen_sitemaps' = seen_sitemaps /\ pc' = "loop"
    ELSE /\ seen_sitemaps' = seen_sitemaps \cup {Head(queue)}
         /\ sitemap_fetches' = [sitemap_fetches EXCEPT ![Head(queue)] = 1]

\* no step adds a visited sitemap to the queue
C12_NoReenqueue ==
  \A u \in seen_sitemaps : Occurrences(queue', u) <= Occurrences(queue, u)

\* C12: within one resolution each sitemap URL is fetched at most once, whether the
\* fetch succeeds or fails: a sitemap is marked visited when it is dequeued, a
\* dequeued entry that is visited already is skipped without a fetch, and a
\* visited sitemap is never enqueued again.
C12_FetchedOnce ==
  /\ [](\A u \in SitemapUrls : sitemap_fetches[u] <= 1)
  /\ [][C12_MarkOrSkip /\ C12_NoReenqueue]_vars

\* a sitemap that two references put in the queue was fetched, its second entry is
\* at the head of the queue, and a fetched sitemap referred back to a visited one
C12_Witness ==
  /\ pc = "loop"
  /\ LoopCondition
  /\ Head(queue) \in seen_sitemaps
  /\ sitemap_fetches[Head(queue)] = 1
  /\ back_ref

\* a step issues a sitemap fetch
C13_SitemapFetchBegins == sitemap_fetches' # sitemap_fetches

\* a step issues a page fetch
C13_PageFetchBegins == page_fetches' # page_fetches

\* C13: sitemap resolution is sequential and precedes page scanning: a sitemap
\* fetch begins only while no sitemap fetch is in flight and no page fetch was
\* issued, and a page fetch begins only after collect_urls_from_sitemap returned.
C13_ResolveThenScan ==
  /\ [](TotalCalls(page_fetches, PageUrls) > 0 => (sm = <<>> /\ pc \in {"scan", "done"}))
  /\ [][C13_SitemapFetchBegins =>
          /\ sm = <<>> /\ sm' # <<>>
          /\ pc = "loop"
          /\ TotalCalls(page_fetches, PageUrls) = 0
          /\ TotalCalls(sitemap_fetches', SitemapUrls)
               = TotalCalls(sitemap_fetches, SitemapUrls) + 1]_vars
  /\ [][C13_PageFetchBegins => (pc = "scan" /\ sm = <<>>)]_vars

\* a page fetch is in flight after two sitemaps were fetched one after the other
C13_Witness ==
  /\ pc = "scan"
  /\ InFlight # {}
  /\ TotalCalls(sitemap_fetches, SitemapUrls) = 2

\* C14: once the number of collected page entries (before the final
\* deduplication) has reached max_urls, no further sitemap is dequeued or fetched,
\* even if the queue is not empty and fewer than max_sitemaps sitemaps were visited.
C14_HaltsAtPageBound ==
  [][(pc = "loop" /\ Len(urls) >= max_urls) =>
       /\ queue' = queue
       /\ seen_sitemaps' = seen_sitemaps
       /\ sitemap_fetches' = sitemap_fetches
       /\ pc' = "returned"]_vars

\* the resolver returned at the page bound with sitemaps left in the queue and
\* budget left to visit them
C14_Witness ==
  /\ pc = "returned"
  /\ max_urls >= 1
  /\ Len(urls) = max_urls
  /\ queue # <<>>
  /\ \E k \in DOMAIN queue : queue[k] \notin seen_sitemaps
  /\ Cardinality(seen_sitemaps) < max_sitemaps

\* the position of the first occurrence of u in seq
FirstAt(seq, u) == CHOOSE i \in DOMAIN seq : seq[i] = u /\ \A j \in 1..(i - 1) : seq[j] # u

\* q is p with entries added at its end
Extends(q, p) == Len(q) >= Len(p) /\ SubSeq(q, 1, Len(p)) = p

\* the returned list holds every collected page once, ordered by first occurrence
C15_FirstSeenOrder ==
  /\ \A k, l \in DOMAIN out : out[k] = out[l] => k = l
  /\ Range(out) = Range(urls) \ {<<>>}
  /\ \A k, l \in DOMAIN out : k < l <=> FirstAt(urls, out[k]) < FirstAt(urls, out[l])

\* sitemaps leave the queue at its head and enter it at its end, and pages are
\* collected at the end of the list
C15_Fifo ==
  /\ C12_Dequeues =>
       /\ queue' = Tail(queue)
       /\ Head(queue) \notin seen_sitemaps => sm' = Head(queue)
       /\ urls' = urls
  /\ pc = "fetch" => (Extends(queue', queue) /\ Extends(urls', urls))

\* C15: the list collect_urls_from_sitemap returns contains no two equal strings
\* and is in first-seen discovery order: sitemaps are fetched in FIFO order of
\* enqueueing, and page u precedes page v in the output exactly when the first
\* occurrence of u was collected before the first occurrence of v.
C15_DiscoveryOrder ==
  /\ [](pc = "returned" => C15_FirstSeenOrder)
  /\ [][C15_Fifo]_vars

\* a page was collected, then another page, then the first page again, from
\* sitemaps fetched one after the other
C15_Witness ==
  /\ pc = "returned"
  /\ Cardinality(seen_sitemaps) >= 2
  /\ \E i, j, k \in DOMAIN urls : i < j /\ j < k /\ urls[i] = urls[k] /\ urls[i] # urls[j]

\* C16: the host filter is applied before the truncation: with same_host_only the
\* scanned list is the first max_pages entries, in discovery order, of the
\* resolved pages whose host (the network location of the URL) equals the root
\* sitemap's, compared case-insensitively, a subdomain not matching; off-host
\* pages use up no max_pages budget and are never fetched.
C16_FilterThenTruncate ==
  /\ pc \in {"scan", "done"} => scan_urls = ExpectedPages
  /\ req.same_host_only =>
       \A u \in PageUrls :
         page_fetches[u] > 0 => Authority(u) = Authority(req.sitemap_url)

\* an off-host page stands in the resolved list before a scanned page, the scanned
\* list is full, and the page whose host is written in upper case was scanned
C16_Witness ==
  /\ pc = "done"
  /\ result.kind = "ok"
  /\ req.same_host_only
  /\ Len(scan_urls) = req.max_pages
  /\ \E k, l \in DOMAIN out : k < l /\ k \notin OnHost /\ out[l] = scan_urls[Len(scan_urls)]
  /\ page_fetches[PageA] = 1
  /\ page_fetches[PageC] = 0

\* what the tasks of `order` that were taken by the loop returned, None left out
RECURSIVE TakenOps(_)
TakenOps(order) ==
  IF order = <<>> THEN <<>>
  ELSE (IF tasks[Head(order)].state = "collected" THEN tasks[Head(order)].op ELSE <<>>)
       \o TakenOps(Tail(order))

\* C17: for every interleaving of page-task completions, opportunities holds
\* exactly one entry for each task that returned an Opportunity and none for a
\* task that returned None, in the order in which the tasks completed and not in
\* the order of the page list.
C17_CompletionOrder ==
  /\ pc = "scan" => results = TakenOps(finished)
  /\ (pc = "done" /\ result.kind = "ok") =>
       /\ result.opportunities = TakenOps(finished)
       /\ \A i \in DOMAIN tasks : Occurrences(finished, i) = 1
       /\ Len(result.opportunities)
            = Cardinality({i \in DOMAIN tasks : tasks[i].op # <<>>})

\* the second page of the list completed first and is reported first
C17_Witness ==
  /\ pc = "done"
  /\ result.kind = "ok"
  /\ finished = <<2, 1>>
  /\ Len(result.opportunities) = 2
  /\ result.opportunities[1].source_url = scan_urls[2]

\* a task that leaves scan_one_page gives its slot back
C18_Releases ==
  \A i \in DOMAIN tasks :
    (tasks[i].state = "fetching" /\ tasks'[i].state # "fetching") => sem' = sem + 1

\* C18: provided each fetch returns, every page waiting at the gate is admitted
\* and taken, every page of the truncated list is fetched exactly once, every task
\* gives its slot back when it completes, all slots are free when the scan ends,
\* and run_scan returns its result.
C18_AllAdmitted ==
  /\ (pc = "scan") ~> (pc = "done")
  /\ \A i \in 1..MaxPagesArg :
       (pc = "scan" /\ i \in DOMAIN tasks /\ tasks[i].state = "waiting")
         ~> (i \in DOMAIN tasks /\ tasks[i].state = "collected")
  /\ [][C18_Releases]_vars
  /\ []((pc = "done" /\ result.kind = "ok") =>
          /\ sem = req.concurrency
          /\ \A i \in DOMAIN tasks :
               tasks[i].state = "collected" /\ page_fetches[scan_urls[i]] = 1)

\* a scan of more pages than slots ended with every slot free after one fetch
\* failed and another returned text
C18_Witness ==
  /\ pc = "done"
  /\ result.kind = "ok"
  /\ Len(scan_urls) > req.concurrency
  /\ sem = req.concurrency
  /\ \E i, j \in DOMAIN tasks : ~tasks[i].html.some /\ Truthy(tasks[j].html)

\* C19: for max_sitemaps >= 1, in every reachable state of
\* collect_urls_from_sitemap the number of visited sitemaps plus the number of
\* queued entries is at most max_sitemaps.
C19_WorkListWithinBudget ==
  (max_sitemaps >= 1 /\ pc \in {"loop", "fetch", "returned"}) =>
    Cardinality(seen_sitemaps) + Len(queue) <= max_sitemaps

\* the budget is used up by the visited sitemaps and the queue, which holds the
\* same sitemap twice
C19_Witness ==
  /\ pc = "loop"
  /\ Cardinality(seen_sitemaps) + Len(queue) = max_sitemaps
  /\ Cardinality(seen_sitemaps) >= 2
  /\ Len(queue) >= 2
  /\ queue[1] = queue[2]

\* the sitemaps known to be reachable from the root: the root and every sitemap a
\* fetched sitemap listed
C20_Reachable == {req.sitemap_url} \cup listed

\* C20: if every sitemap fetch succeeds, the page bound is not reached and the
\* number of different sitemap URLs reachable from the root is at most
\* max_sitemaps, then every reachable sitemap is fetched and every page collected
\* from them is in the returned list.
C20_CompleteWithinBudget ==
  (/\ pc = "returned"
   /\ ~fetch_failed
   /\ Len(urls) < max_urls
   /\ Cardinality(C20_Reachable) <= max_sitemaps) =>
    /\ \A s \in C20_Reachable : sitemap_fetches[s] = 1
    /\ Range(urls) \subseteq Range(out)

=============================================================================
